---- MODULE Spec2Model ----
(***************************************************************************)
(* Rule 142 detector (src/app/app.py): scan_unit finds obsolete            *)
(* WS_UPLOAD / WS_DOWNLOAD / UPLOAD / DOWNLOAD calls in the code of a unit *)
(* and reports one Finding per flagged CALL FUNCTION statement.            *)
(*                                                                         *)
(* A text is a sequence of one-character strings.  Offsets are Python      *)
(* offsets (0-based, "between characters"): the character at offset i of s *)
(* is s[i+1], and the slice s[a:b] is SubSeq(s, a+1, b).                   *)
(***************************************************************************)
EXTENDS Integers, Sequences, FiniteSets, TLC

(***************************************************************************)
(* Characters                                                              *)
(***************************************************************************)
UpperChars ==
  <<"A","B","C","D","E","F","G","H","I","J","K","L","M","N","O","P","Q","R","S","T","U","V","W","X","Y","Z">>

LowerChars ==
  <<"a","b","c","d","e","f","g","h","i","j","k","l","m","n","o","p","q","r","s","t","u","v","w","x","y","z">>

Digits ==
  {"0","1","2","3","4","5","6","7","8","9"}

Letters ==
  {UpperChars[i] : i \in 1..26} \cup {LowerChars[i] : i \in 1..26}

ToUpper ==
  [c \in {LowerChars[i] : i \in 1..26} |->
     UpperChars[CHOOSE i \in 1..26 : LowerChars[i] = c]]

ToLower ==
  [c \in {UpperChars[i] : i \in 1..26} |->
     LowerChars[CHOOSE i \in 1..26 : UpperChars[i] = c]]

\* str.upper() on one character
UpperOf(c) ==
  IF c \in DOMAIN ToUpper THEN ToUpper[c] ELSE c

\* the lower-case partner of a character (IGNORECASE matching)
LowerOf(c) ==
  IF c \in DOMAIN ToLower THEN ToLower[c] ELSE c

\* \s of the re module, on the characters the texts use
WhiteSpace ==
  {" ", "\n", "\t", "\r"}

\* \w of the re module: what \b tells apart from the rest
WordChars ==
  Letters \cup Digits \cup {"_"}

None ==
  <<>>

Some(x) ==
  <<x>>

(***************************************************************************)
(* The fragment of the re module the two patterns use.  A pattern is a     *)
(* sequence of atoms; MatchFrom is the backtracking matcher: greedy        *)
(* repetitions try the longest run first, alternations try their branches  *)
(* left to right.  The result is <<>> when the match fails, otherwise the  *)
(* offsets of the group marks passed, followed by the end offset.          *)
(***************************************************************************)
Atom(t, cs, neg, min, alts) ==
  [t |-> t, cs |-> cs, neg |-> neg, min |-> min, alts |-> alts]

\* one literal character under re.IGNORECASE
I(c) ==
  Atom("set", {UpperOf(c), LowerOf(c)}, FALSE, 1, <<>>)

\* one character of a class, [^...] when neg
Set(cs, neg) ==
  Atom("set", cs, neg, 1, <<>>)

\* greedy repetition of a class: min = 0 is *, min = 1 is +
Rep(cs, neg, min) ==
  Atom("rep", cs, neg, min, <<>>)

\* \b
WordB ==
  Atom("wordb", {}, FALSE, 0, <<>>)

\* (?:a|b|...) over literal strings
Alt(alts) ==
  Atom("alt", {}, FALSE, 0, alts)

\* the opening or closing parenthesis of a capturing group
Mark ==
  Atom("mark", {}, FALSE, 0, <<>>)

Matches1(a, c) ==
  (c \in a.cs) # a.neg

IsWordAt(s, i) ==
  i >= 1 /\ i <= Len(s) /\ s[i] \in WordChars

\* \b at offset i: exactly one of the two neighbours is a word character
IsWordBoundary(s, i) ==
  IsWordAt(s, i) # IsWordAt(s, i + 1)

\* the literal lit stands at offset i of s
LitAt(s, i, lit) ==
  /\ i + Len(lit) <= Len(s)
  /\ \A j \in 1..Len(lit) : s[i + j] = lit[j]

\* the least element of a non-empty set of integers
MinOf(S) ==
  CHOOSE x \in S : \A y \in S : x <= y

\* the greatest element of a non-empty set of integers
MaxOf(S) ==
  CHOOSE x \in S : \A y \in S : x >= y

\* length of the longest run of characters of the class a from offset i
RunLen(a, s, i) ==
  LET stop == CHOOSE j \in i..Len(s) :
                /\ j = Len(s) \/ ~Matches1(a, s[j + 1])
                /\ \A m \in i..(j - 1) : Matches1(a, s[m + 1])
  IN stop - i

RECURSIVE MatchFrom(_, _, _, _)
RECURSIVE TryAlt(_, _, _, _, _)

MatchFrom(pat, k, s, i) ==
  IF k > Len(pat) THEN <<i>>
  ELSE LET a == pat[k] IN
    CASE a.t = "set" ->
           IF i < Len(s) /\ Matches1(a, s[i + 1])
             THEN MatchFrom(pat, k + 1, s, i + 1) ELSE <<>>
      [] a.t = "wordb" ->
           IF IsWordBoundary(s, i) THEN MatchFrom(pat, k + 1, s, i) ELSE <<>>
      [] a.t = "rep" ->
           LET n == RunLen(a, s, i)
               \* the repetition takes n characters; when the rest fails
               \* it gives one back at a time, down to its minimum: the
               \* match is the one with the longest run the rest accepts
               longest == MatchFrom(pat, k + 1, s, i + n)
               ok == {c \in a.min..(n - 1) :
                        MatchFrom(pat, k + 1, s, i + c) # <<>>}
           IN IF n < a.min THEN <<>>
              ELSE IF longest # <<>> THEN longest
              ELSE IF ok = {} THEN <<>>
              ELSE MatchFrom(pat, k + 1, s, i + MaxOf(ok))
      [] a.t = "alt" ->
           TryAlt(pat, k, s, i, 1)
      [] a.t = "mark" ->
           LET r == MatchFrom(pat, k + 1, s, i)
           IN IF r = <<>> THEN <<>> ELSE <<i>> \o r

\* the alternation pat[k] tries its j-th branch, then the later ones
TryAlt(pat, k, s, i, j) ==
  IF j > Len(pat[k].alts) THEN <<>>
  ELSE LET lit == pat[k].alts[j]
           r == IF LitAt(s, i, lit)
                  THEN MatchFrom(pat, k + 1, s, i + Len(lit)) ELSE <<>>
       IN IF r # <<>> THEN r ELSE TryAlt(pat, k, s, i, j + 1)

\* the offsets from pos on where a match of pat can start: when the pattern
\* opens with \b and a literal character, those holding that character
Candidates(pat, s, pos) ==
  IF Len(pat) >= 2 /\ pat[1].t = "wordb" /\ pat[2].t = "set" /\ ~pat[2].neg
    THEN {p \in pos..(Len(s) - 1) : s[p + 1] \in pat[2].cs}
    ELSE pos..Len(s)

\* pattern.search(s, pos): the leftmost match, <<>> or <<start, marks.., end>>
Search(pat, s, pos) ==
  LET starts == {p \in Candidates(pat, s, pos) : MatchFrom(pat, 1, s, p) # <<>>}
  IN IF starts = {} THEN <<>>
     ELSE <<MinOf(starts)>> \o MatchFrom(pat, 1, s, MinOf(starts))

RECURSIVE FindIter(_, _, _)
\* pattern.finditer(s): the non-overlapping matches, left to right; the
\* search resumes where the previous match ended (one further after an
\* empty match)
FindIter(pat, s, pos) ==
  LET r == Search(pat, s, pos)
  IN IF r = <<>> THEN <<>>
     ELSE LET st == r[1]
              en == r[Len(r)]
          IN <<[start |-> st, end |-> en]>>
               \o FindIter(pat, s, IF en = st THEN en + 1 ELSE en)

(***************************************************************************)
(* The patterns and the denylist                                           *)
(***************************************************************************)
KwCall ==
  <<I("C"), I("A"), I("L"), I("L")>>

KwFunction ==
  <<I("F"), I("U"), I("N"), I("C"), I("T"), I("I"), I("O"), I("N")>>

\* STMT_RE with .* in place of [^.]*: the statement runs to the last "."
STMT_RE_Greedy ==
  <<WordB>> \o KwCall \o <<Rep(WhiteSpace, FALSE, 1)>> \o KwFunction
    \o <<WordB, Rep({}, TRUE, 0), Set({"."}, FALSE)>>

\* (?is)\bCALL\s+FUNCTION\b[^.]*\.
STMT_RE ==
  <<WordB>> \o KwCall \o <<Rep(WhiteSpace, FALSE, 1)>> \o KwFunction
    \o <<WordB, Rep({"."}, TRUE, 0), Set({"."}, FALSE)>>

Quotes ==
  <<<<"'">>, <<"\"">>, <<>> >>

\* [A-Z0-9_] under re.IGNORECASE
NameChars ==
  Letters \cup Digits \cup {"_"}

\* (?i)\bCALL\s+FUNCTION\s+(?:'|"|)\s*(?P<fname>[A-Z0-9_]+)\s*(?:'|"|)
FN_NAME_RE ==
  <<WordB>> \o KwCall \o <<Rep(WhiteSpace, FALSE, 1)>> \o KwFunction
    \o <<Rep(WhiteSpace, FALSE, 1), Alt(Quotes), Rep(WhiteSpace, FALSE, 0),
         Mark, Rep(NameChars, FALSE, 1), Mark,
         Rep(WhiteSpace, FALSE, 0), Alt(Quotes)>>

OBSOLETE_FMS ==
  {<<"W","S","_","U","P","L","O","A","D">>, <<"W","S","_","D","O","W","N","L","O","A","D">>, <<"U","P","L","O","A","D">>, <<"D","O","W","N","L","O","A","D">>}

(***************************************************************************)
(* str helpers                                                             *)
(***************************************************************************)
\* s[a:b]
Slice(s, a, b) ==
  SubSeq(s, a + 1, b)

\* s.count(c) for a one-character c
Count(s, c) ==
  Cardinality({i \in 1..Len(s) : s[i] = c})

\* s.rfind(c, lo, hi): the highest offset in lo..hi-1 holding c, else -1
RFind(s, c, lo, hi) ==
  LET at == {j \in lo..(hi - 1) : j < Len(s) /\ s[j + 1] = c}
  IN IF at = {} THEN -1 ELSE MaxOf(at)

\* s.find(c, from): the lowest offset >= from holding c, else -1
Find(s, c, from) ==
  LET at == {j \in from..(Len(s) - 1) : s[j + 1] = c}
  IN IF at = {} THEN -1 ELSE MinOf(at)

\* s.upper()
Upper(s) ==
  [i \in 1..Len(s) |-> UpperOf(s[i])]

\* sub in s
Contains(s, sub) ==
  \E i \in 0..(Len(s) - Len(sub)) : LitAt(s, i, sub)

RECURSIVE ReplaceNewlines(_)
\* s.replace("\n", "\\n"): every newline becomes a backslash and the letter n
ReplaceNewlines(s) ==
  LET f == Find(s, "\n", 0)
  IN IF f = -1 THEN s
     ELSE Slice(s, 0, f) \o <<"\\", "n">>
            \o ReplaceNewlines(Slice(s, f + 1, Len(s)))

\* x or default, for an Optional whose falsy values are None and zero
OrElse(opt, zero, default) ==
  IF opt = None \/ opt[1] = zero THEN default ELSE opt[1]

(***************************************************************************)
(* get_line_snippet and scan_unit                                          *)
(***************************************************************************)
\* get_line_snippet looking for the line's end from the match's start: the
\* line the statement begins on, and no more
get_line_snippet_FirstLine(text, start, end) ==
  LET r == RFind(text, "\n", 0, start)
      line_start == IF r = -1 THEN 0 ELSE r + 1
      f == Find(text, "\n", start)
      line_end == IF f = -1 THEN Len(text) ELSE f
  IN Slice(text, line_start, line_end)

get_line_snippet(text, start, end) ==
  LET r == RFind(text, "\n", 0, start)
      line_start == IF r = -1 THEN 0 ELSE r + 1
      f == Find(text, "\n", end)
      line_end == IF f = -1 THEN Len(text) ELSE f
  IN Slice(text, line_start, line_end)

UploadSuggestion ==
  "Replace with Unicode-compliant APIs:\n  CALL FUNCTION 'GUI_UPLOAD'\n    EXPORTING\n      filename = <path>\n      filetype = 'ASC'\n      encoding = 'UTF-8'\n    TABLES\n      data_tab = <itab>.\nOr use CL_GUI_FRONTEND_SERVICES=>GUI_UPLOAD for OO style."

DownloadSuggestion ==
  "Replace with Unicode-compliant APIs:\n  CALL FUNCTION 'GUI_DOWNLOAD'\n    EXPORTING\n      filename = <path>\n      filetype = 'ASC'\n      encoding = 'UTF-8'\n    TABLES\n      data_tab = <itab>.\nOr use CL_GUI_FRONTEND_SERVICES=>GUI_DOWNLOAD for OO style."

\* the name the statement's first FN_NAME_RE match captures, upper-cased;
\* None when the pattern matches nowhere in the statement
FmOf(stmt) ==
  LET name_match == Search(FN_NAME_RE, stmt, 0)
  IN IF name_match = <<>> THEN None
     ELSE Some(Upper(Slice(stmt, name_match[2], name_match[3])))

\* line_in_block counted from 0
LineInBlock_ZeroBased(src, stmt_start) ==
  Count(Slice(src, 0, stmt_start), "\n")

LineInBlock(src, stmt_start) ==
  Count(Slice(src, 0, stmt_start), "\n") + 1

\* snippet_line_count as the number of line breaks
SnippetLineCount_Breaks(snippet_line) ==
  Count(snippet_line, "\n")

SnippetLineCount(snippet_line) ==
  Count(snippet_line, "\n") + 1

\* findings.insert(0, finding)
AppendFinding_Front(findings, finding) ==
  <<finding>> \o findings

AppendFinding(findings, finding) ==
  Append(findings, finding)

\* the Finding built for the flagged statement m of src
MakeFinding(unit, src, base_start, m, fm) ==
  LET line_in_block == LineInBlock(src, m.start)
      snippet_line == get_line_snippet(src, m.start, m.end)
      snippet_line_count == SnippetLineCount(snippet_line)
  IN [prog_name     |-> unit.pgm_name,
      incl_name     |-> unit.inc_name,
      types         |-> unit.type,
      blockname     |-> unit.name,
      starting_line |-> base_start + line_in_block,
      ending_line   |-> base_start + line_in_block + snippet_line_count,
      issues_type   |-> "ObsoleteUploadDownload",
      severity      |-> "error",
      message       |-> <<"Obsolete function module '", fm,
                          "' detected (non-Unicode).">>,
      suggestion    |-> IF Contains(fm, <<"U","P","L","O","A","D">>)
                          THEN UploadSuggestion ELSE DownloadSuggestion,
      snippet       |-> ReplaceNewlines(snippet_line)]

\* one pass of the loop body over the match m
Visit(unit, src, base_start, m, findings) ==
  LET stmt == Slice(src, m.start, m.end)
      fm == FmOf(stmt)
  IN IF fm = None THEN findings
     ELSE IF fm[1] \in OBSOLETE_FMS
            THEN AppendFinding(findings,
                               MakeFinding(unit, src, base_start, m, fm[1]))
            ELSE findings

RECURSIVE ScanLoop(_, _, _, _, _, _)
\* for m in STMT_RE.finditer(src), from the k-th match on
ScanLoop(unit, src, base_start, ms, k, findings) ==
  IF k > Len(ms) THEN findings
  ELSE ScanLoop(unit, src, base_start, ms, k + 1,
                Visit(unit, src, base_start, ms[k], findings))

\* src = unit.code or ""
CodeOf(unit) ==
  OrElse(unit.code, <<>>, <<>>)

\* base_start = unit.start_line or 0
BaseOf(unit) ==
  OrElse(unit.start_line, 0, 0)

\* the findings list scan_unit builds for unit
FindingsOf(unit) ==
  LET src == CodeOf(unit)
      base_start == BaseOf(unit)
  IN ScanLoop(unit, src, base_start, FindIter(STMT_RE, src, 0), 1, <<>>)

\* scan_unit enriching the caller's unit in place: the new findings are
\* appended to the list the unit carries and the unit itself is returned
scan_unit_InPlace(unit) ==
  LET carried == IF unit.findings = None THEN <<>> ELSE unit.findings[1]
      enriched == [unit EXCEPT !.findings = Some(carried \o FindingsOf(unit))]
  IN [out |-> enriched, input |-> enriched]

\* scan_unit as the caller sees it: out is the returned unit, input is the
\* caller's unit object after the call
scan_unit(unit) ==
  [out   |-> [unit EXCEPT !.findings = Some(FindingsOf(unit))],
   input |-> unit]

(***************************************************************************)
(* Endpoints                                                               *)
(***************************************************************************)
\* if res.findings is not None
Keep_NotNone(res) ==
  res.findings # None

\* if res.findings: a list that is present and not empty
Keep(res) ==
  res.findings # None /\ res.findings[1] # <<>>

\* the body /remediate-array returns for the scanned units outs
ArrayResults(outs) ==
  SelectSeq(outs, Keep)

HealthBody ==
  [ok |-> TRUE, rule |-> 142, version |-> "2.0"]

(***************************************************************************)
(* Inputs: the units a caller posts                                        *)
(***************************************************************************)
MaxFrags ==
  3

MaxUnits ==
  3

\* the two-line statement of the upload scenario
UploadStmt ==
  <<"C","A","L","L"," ","F","U","N","C","T","I","O","N"," ","'","W","S","_","U","P","L","O","A","D","'","\n"," "," ","E","X","P","O","R","T","I","N","G"," ","x"," ","="," ","y",".">>

DownloadStmt ==
  <<"c","a","l","l"," ","f","u","n","c","t","i","o","n"," ","d","o","w","n","l","o","a","d",".">>

GuiStmt ==
  <<"C","A","L","L"," ","F","U","N","C","T","I","O","N"," ","\"","G","U","I","_","U","P","L","O","A","D","\"",".">>

Keyword ==
  <<"C","A","L","L"," ","F","U","N","C","T","I","O","N">>

Frags ==
  {UploadStmt, DownloadStmt, Keyword, <<"\n">>, <<"X">>, <<".">>}

RECURSIVE TextsOf(_)
\* all concatenations of exactly n fragments
TextsOf(n) ==
  IF n = 0 THEN {<<>>}
  ELSE {t \o f : t \in TextsOf(n - 1), f \in Frags}

FreeTexts ==
  UNION {TextsOf(n) : n \in 0..MaxFrags}

\* one call written with every quoting, in upper and in lower case, the
\* quote closed or not, the statement terminated or not
UpperNames ==
  {<<"W","S","_","U","P","L","O","A","D">>, <<"W","S","_","D","O","W","N","L","O","A","D">>, <<"U","P","L","O","A","D">>, <<"D","O","W","N","L","O","A","D">>,
   <<"G","U","I","_","U","P","L","O","A","D">>, <<"U","P","L","O","A","D","-","X">>, <<"/","N","S","/","U","P","L","O","A","D">>}

LowerNames ==
  {<<"w","s","_","u","p","l","o","a","d">>, <<"w","s","_","d","o","w","n","l","o","a","d">>, <<"u","p","l","o","a","d">>, <<"d","o","w","n","l","o","a","d">>}

QuoteMarks ==
  {<<"'">>, <<"\"">>, <<>>}

CallTails ==
  {<<".">>, <<>>, <<"\n"," "," ","E","X","P","O","R","T","I","N","G"," ","f"," ","="," ","'","a",".","t","x","t","'",".">>}

CallTexts ==
  {<<"C","A","L","L"," ","F","U","N","C","T","I","O","N"," ">> \o q1 \o nm \o q2 \o tl :
     q1 \in QuoteMarks, nm \in UpperNames, q2 \in QuoteMarks, tl \in CallTails}
  \cup
  {<<"c","a","l","l"," ","f","u","n","c","t","i","o","n"," ">> \o q1 \o nm \o q2 \o tl :
     q1 \in QuoteMarks, nm \in LowerNames, q2 \in QuoteMarks, tl \in CallTails}

StartLines ==
  {None, Some(0), Some(100)}

\* a finding left on the unit by an earlier stage
StaleFinding ==
  [prog_name     |-> "ZOLD",
   incl_name     |-> "ZOLD",
   types         |-> "include",
   blockname     |-> "",
   starting_line |-> 1,
   ending_line   |-> 1,
   issues_type   |-> "Other",
   severity      |-> "warning",
   message       |-> <<"stale">>,
   suggestion    |-> "",
   snippet       |-> <<"s","t","a","l","e">>]

InFindings ==
  {None, Some(<<>>), Some(<<StaleFinding>>)}

MkUnit(name, start_line, code, findings) ==
  [pgm_name   |-> "ZPROG",
   inc_name   |-> "ZINCL",
   type       |-> "program",
   name       |-> name,
   start_line |-> start_line,
   end_line   |-> Some(0),
   code       |-> code,
   findings   |-> findings]

FreeUnits ==
  {MkUnit("", Some(100), Some(t), None) : t \in FreeTexts}

CallUnits ==
  {MkUnit("F1", Some(7), Some(t), None) : t \in CallTexts}

CarryUnits ==
  {MkUnit("F2", sl, c, f) :
     sl \in StartLines,
     c \in {None, Some(UploadStmt), Some(<<"X","\n">> \o UploadStmt \o <<"\n","X">>)},
     f \in InFindings}

\* a unit with a flagged call, and one with none that carries a stale finding
BatchUnits ==
  {MkUnit("B1", Some(0), Some(UploadStmt), None),
   MkUnit("B2", Some(100), Some(GuiStmt), Some(<<StaleFinding>>))}

RECURSIVE BatchesOf(_)
BatchesOf(n) ==
  IF n = 0 THEN {<<>>}
  ELSE {Append(b, u) : b \in BatchesOf(n - 1), u \in BatchUnits}

Requests ==
  {<<u>> : u \in FreeUnits \cup CallUnits \cup CarryUnits}
    \cup UNION {BatchesOf(n) : n \in 0..MaxUnits}

(***************************************************************************)
(* The service: stateless handlers over the units a caller holds           *)
(***************************************************************************)
VARIABLES
  units,     \* the caller's unit objects, as they are now
  sent,      \* the same units as the caller built them
  op,        \* the endpoint called last
  arg,       \* the index of the unit posted to /remediate, else 0
  response,  \* the body returned last
  firstF,    \* per unit, the findings its first scan returned
  lastF,     \* per unit, the findings its latest scan returned
  rescan     \* the last call scanned a unit that had been scanned before

vars ==
  <<units, sent, op, arg, response, firstF, lastF, rescan>>

Init ==
  /\ units \in Requests
  /\ sent = units
  /\ op = "none"
  /\ arg = 0
  /\ response = <<>>
  /\ firstF = [i \in 1..Len(units) |-> None]
  /\ lastF = [i \in 1..Len(units) |-> None]
  /\ rescan = FALSE

\* POST /remediate with units[i]
scan_rule_single(i) ==
  \E r \in {scan_unit(units[i])} :
     /\ units' = [units EXCEPT ![i] = r.input]
     /\ response' = <<r.out>>
     /\ op' = "remediate"
     /\ arg' = i
     /\ firstF' = [firstF EXCEPT ![i] = IF @ = None THEN r.out.findings ELSE @]
     /\ lastF' = [lastF EXCEPT ![i] = r.out.findings]
     /\ rescan' = (firstF[i] # None)
     /\ UNCHANGED sent

\* POST /remediate-array with units
scan_rule_array ==
  \E rs \in {[i \in 1..Len(units) |-> scan_unit(units[i])]} :
     /\ units' = [i \in 1..Len(units) |-> rs[i].input]
     /\ response' = ArrayResults([i \in 1..Len(units) |-> rs[i].out])
     /\ op' = "remediate-array"
     /\ arg' = 0
     /\ firstF' = [i \in 1..Len(units) |->
                     IF firstF[i] = None THEN rs[i].out.findings ELSE firstF[i]]
     /\ lastF' = [i \in 1..Len(units) |-> rs[i].out.findings]
     /\ rescan' = (\E i \in 1..Len(units) : firstF[i] # None)
     /\ UNCHANGED sent

\* GET /health
health ==
  /\ response' = <<HealthBody>>
  /\ op' = "health"
  /\ arg' = 0
  /\ rescan' = FALSE
  /\ UNCHANGED <<units, sent, firstF, lastF>>

Next ==
  \/ \E i \in 1..Len(units) : scan_rule_single(i)
  \/ scan_rule_array
  \/ health

Spec ==
  Init /\ [][Next]_vars

(***************************************************************************)
(* Vocabulary of the properties, stated on the text and not through the    *)
(* matcher                                                                 *)
(***************************************************************************)
Scanned(i) ==
  lastF[i] # None

\* the findings the latest scan of unit i returned
Found(i) ==
  lastF[i][1]

NonEmpty(fs) ==
  fs # None /\ fs[1] # <<>>

\* the invocation keyword fills the offsets p..e of text: CALL, white space,
\* FUNCTION, in any case, with a word boundary on either side
IsKeywordSpan(text, p, e) ==
  /\ 0 <= p /\ p + 13 <= e /\ e <= Len(text)
  /\ text[p + 1] \in {"C", "c"} /\ text[e] \in {"N", "n"}
  /\ Upper(Slice(text, p, p + 4)) = <<"C","A","L","L">>
  /\ Upper(Slice(text, e - 8, e)) = <<"F","U","N","C","T","I","O","N">>
  /\ \A j \in (p + 5)..(e - 8) : text[j] \in WhiteSpace
  /\ p = 0 \/ text[p] \notin WordChars
  /\ e = Len(text) \/ text[e + 1] \notin WordChars

KeywordAt(text, p) ==
  /\ p + 13 <= Len(text)
  /\ text[p + 1] \in {"C", "c"}
  /\ \E e \in (p + 13)..Len(text) : IsKeywordSpan(text, p, e)

\* offsets (1-based positions) of the terminators after offset p
DotsAfter(text, p) ==
  {j \in (p + 1)..Len(text) : text[j] = "."}

\* the routine name written after a keyword that ends at offset e: after
\* white space, either the text between a quote and the next quote of the
\* same kind, or the run of characters up to white space or the terminator;
\* None when no name is written there
WrittenName(text, e) ==
  LET rest == {j \in (e + 1)..Len(text) : text[j] \notin WhiteSpace}
      a == IF rest = {} THEN Len(text) + 1 ELSE MinOf(rest)
  IN IF a = e + 1 \/ a > Len(text) THEN None
     ELSE IF text[a] \in {"'", "\""}
       THEN LET close == {j \in (a + 1)..Len(text) : text[j] = text[a]}
            IN IF close = {} THEN None
               ELSE Some(SubSeq(text, a + 1, MinOf(close) - 1))
       ELSE LET stop == {j \in a..Len(text) : text[j] \in WhiteSpace \cup {"."}}
                z == IF stop = {} THEN Len(text) + 1 ELSE MinOf(stop)
            IN Some(SubSeq(text, a, z - 1))

IsObsoleteName(name) ==
  name # None /\ Upper(name[1]) \in OBSOLETE_FMS

\* a terminated call of a denylisted routine is written at offset p
ObsoleteCallAt(text, p) ==
  \E e \in (p + 13)..Len(text) :
    /\ IsKeywordSpan(text, p, e)
    /\ IsObsoleteName(WrittenName(text, e))
    /\ DotsAfter(text, e) # {}

ObsoleteCalls(text) ==
  {p \in 0..Len(text) : ObsoleteCallAt(text, p)}

\* the statement spans of text, and those among them the scan flags
SpansOf(text) ==
  FindIter(STMT_RE, text, 0)

IsFlagged(unit, m) ==
  Visit(unit, CodeOf(unit), BaseOf(unit), m, <<>>) # <<>>

FlaggedSpans(unit) ==
  LET Test(m) == IsFlagged(unit, m)
  IN SelectSeq(SpansOf(CodeOf(unit)), Test)

\* number of line breaks among the positions lo..hi of text
BreaksIn(text, lo, hi) ==
  Cardinality({j \in lo..hi : text[j] = "\n"})

\* a line of text begins at offset a, and the offsets a..st are on it
IsLineStart(text, a, st) ==
  /\ 0 <= a /\ a <= st
  /\ a = 0 \/ text[a] = "\n"
  /\ BreaksIn(text, a + 1, st) = 0

\* a line of text ends at offset b, and the offsets en..b are on it
IsLineEnd(text, b, en) ==
  /\ en <= b /\ b <= Len(text)
  /\ b = Len(text) \/ text[b + 1] = "\n"
  /\ BreaksIn(text, en + 1, b) = 0

\* esc is line with each line break written as a backslash and an n
IsEscaped(esc, line) ==
  LET at(i) == i + BreaksIn(line, 1, i - 1)
  IN /\ Len(esc) = Len(line) + BreaksIn(line, 1, Len(line))
     /\ \A i \in 1..Len(line) :
          IF line[i] = "\n"
            THEN esc[at(i)] = "\\" /\ esc[at(i) + 1] = "n"
            ELSE esc[at(i)] = line[i]

DenylistCompleteness ==
  \A i \in 1..Len(units) :
    Scanned(i) => Len(Found(i)) = Cardinality(ObsoleteCalls(CodeOf(sent[i])))

(***************************************************************************)
(* C3: a statement yields a finding only when the routine name written in  *)
(* it is one of the four denylisted names.                                 *)
(***************************************************************************)
NonMatchExclusion ==
  \A i \in 1..Len(units) :
    Scanned(i) =>
      LET text == CodeOf(sent[i])
          fs == FlaggedSpans(sent[i])
      IN /\ Len(Found(i)) = Len(fs)
         /\ \A k \in 1..Len(fs) :
              \E e \in fs[k].start..fs[k].end :
                /\ IsKeywordSpan(text, fs[k].start, e)
                /\ IsObsoleteName(WrittenName(Slice(text, 0, fs[k].end), e))

(***************************************************************************)
(* C4: the findings of a unit are in the order of their statements in the  *)
(* text: the k-th finding is the one of the k-th flagged statement by      *)
(* offset, so starting_line never decreases along the list.                *)
(***************************************************************************)
OrderPreservation ==
  \A i \in 1..Len(units) :
    Scanned(i) =>
      LET text == CodeOf(sent[i])
          fs == FlaggedSpans(sent[i])
          F == Found(i)
      IN /\ Len(F) = Len(fs)
         /\ \A j, k \in 1..Len(fs) : j < k => fs[j].start < fs[k].start
         /\ \A k \in 1..Len(F) :
              F[k].starting_line
                = BaseOf(sent[i]) + BreaksIn(text, 1, fs[k].start) + 1
         /\ \A j, k \in 1..Len(F) :
              j < k => F[j].starting_line <= F[k].starting_line

OrderWitness ==
  \E i \in 1..Len(units) :
    /\ Scanned(i)
    /\ Len(Found(i)) = 3
    /\ Found(i)[1].starting_line < Found(i)[2].starting_line
    /\ Found(i)[2].starting_line = Found(i)[3].starting_line

\* /remediate was called with the two-line upload statement and start_line 0
IsUploadScenario ==
  /\ op = "remediate"
  /\ sent[arg].code = Some(UploadStmt)
  /\ sent[arg].start_line = Some(0)

(***************************************************************************)
(* C5 as the spec states it: the two-line upload statement scanned with    *)
(* start_line 0 gives one finding, starting_line 1, ending_line 2, with    *)
(* the upload suggestion.                                                  *)
(***************************************************************************)
UploadScenarioAsStated ==
  IsUploadScenario =>
    LET F == response[1].findings[1]
    IN /\ Len(F) = 1
       /\ F[1].starting_line = 1
       /\ F[1].ending_line = 2
       /\ F[1].suggestion = UploadSuggestion

(***************************************************************************)
(* C5 amended: the same scan gives one finding, starting_line 1 and        *)
(* ending_line 3 (1 + the two lines of the snippet), with the upload       *)
(* suggestion and a message naming WS_UPLOAD.                              *)
(***************************************************************************)
UploadScenario ==
  IsUploadScenario =>
    LET F == response[1].findings[1]
    IN /\ Len(F) = 1
       /\ F[1].starting_line = 1
       /\ F[1].ending_line = 3
       /\ F[1].suggestion = UploadSuggestion
       /\ F[1].message[2] = <<"W","S","_","U","P","L","O","A","D">>

UploadScenarioWitness ==
  /\ IsUploadScenario
  /\ Len(response) = 1
  /\ Len(response[1].findings[1]) = 1

(***************************************************************************)
(* C6: for every finding, starting_line is the unit's start_line (0 when   *)
(* absent) plus the number of line breaks before the statement plus 1, and *)
(* ending_line is starting_line plus the number of lines of the snippet;   *)
(* so ending_line >= starting_line.                                        *)
(***************************************************************************)
LineArithmetic ==
  \A i \in 1..Len(units) :
    Scanned(i) =>
      LET text == CodeOf(sent[i])
          fs == FlaggedSpans(sent[i])
          F == Found(i)
          base == IF sent[i].start_line = None THEN 0 ELSE sent[i].start_line[1]
      IN /\ Len(F) = Len(fs)
         /\ \A k \in 1..Len(F) :
              /\ F[k].starting_line = base + BreaksIn(text, 1, fs[k].start) + 1
              /\ \E a \in 0..fs[k].start :
                   /\ IsLineStart(text, a, fs[k].start)
                   /\ \E b \in fs[k].end..Len(text) :
                        /\ IsLineEnd(text, b, fs[k].end)
                        /\ F[k].ending_line
                             = F[k].starting_line + BreaksIn(text, a + 1, b) + 1
              /\ F[k].ending_line >= F[k].starting_line

\* start_line 100 and a statement on the third line: starting_line 103
LineArithmeticWitness ==
  \E i \in 1..Len(units) :
    /\ Scanned(i)
    /\ sent[i].start_line = Some(100)
    /\ Len(Found(i)) = 1
    /\ BreaksIn(CodeOf(sent[i]), 1, FlaggedSpans(sent[i])[1].start) = 2
    /\ Found(i)[1].starting_line = 103

(***************************************************************************)
(* C7: the snippet of a finding is the text of the lines its statement     *)
(* touches, from after the line break before the statement to the line     *)
(* break after its end, each line break inside written as a backslash and  *)
(* an n: it holds the whole statement, no raw line break and no other      *)
(* line.                                                                   *)
(***************************************************************************)
SnippetFidelity ==
  \A i \in 1..Len(units) :
    Scanned(i) =>
      LET text == CodeOf(sent[i])
          fs == FlaggedSpans(sent[i])
          F == Found(i)
      IN /\ Len(F) = Len(fs)
         /\ \A k \in 1..Len(F) :
              /\ \E a \in 0..fs[k].start :
                   /\ IsLineStart(text, a, fs[k].start)
                   /\ \E b \in fs[k].end..Len(text) :
                        /\ IsLineEnd(text, b, fs[k].end)
                        /\ IsEscaped(F[k].snippet, Slice(text, a, b))
              /\ \A j \in 1..Len(F[k].snippet) : F[k].snippet[j] # "\n"

\* a statement of two lines with a line before it and a line after it
SnippetWitness ==
  \E i \in 1..Len(units) :
    /\ Scanned(i)
    /\ CodeOf(sent[i]) = <<"X","\n">> \o UploadStmt \o <<"\n","X">>
    /\ Len(Found(i)) = 1
    /\ Found(i)[1].snippet = ReplaceNewlines(UploadStmt)

(***************************************************************************)
(* C8: a scan leaves the caller's unit as it was, and the unit returned    *)
(* differs from it in findings alone, which hold the findings of this scan *)
(* whatever findings the unit carried.                                     *)
(***************************************************************************)
InputImmutability ==
  /\ units = sent
  /\ op = "remediate" =>
       /\ Len(response) = 1
       /\ response[1]
            = [sent[arg] EXCEPT
                 !.findings = Some(FindingsOf([sent[arg] EXCEPT !.findings = None]))]
  /\ \A i \in 1..Len(units) :
       Scanned(i) => Found(i) = FindingsOf([sent[i] EXCEPT !.findings = None])

InputImmutabilityWitness ==
  /\ op = "remediate"
  /\ sent[arg].findings = Some(<<StaleFinding>>)
  /\ units[arg].findings = Some(<<StaleFinding>>)
  /\ NonEmpty(response[1].findings)
  /\ response[1].findings[1][1].issues_type = "ObsoleteUploadDownload"

(***************************************************************************)
(* C9: every scan of a unit returns the findings its first scan returned,  *)
(* whatever was scanned in between.                                        *)
(***************************************************************************)
Idempotence ==
  \A i \in 1..Len(units) :
    firstF[i] # None => lastF[i] = firstF[i]

\* a unit with findings scanned again after another unit was scanned
IdempotenceWitness ==
  /\ rescan
  /\ op = "remediate"
  /\ NonEmpty(lastF[arg])
  /\ \E j \in 1..Len(units) : j # arg /\ Scanned(j)

(***************************************************************************)
(* C10: every statement span starts at a keyword and ends with the first   *)
(* "." after it, the spans come in increasing offset without overlap, and  *)
(* a keyword with no "." after it gives no span and no finding.            *)
(***************************************************************************)
SpanBounds ==
  \A i \in 1..Len(units) :
    LET text == CodeOf(units[i])
        ms == SpansOf(text)
    IN /\ \A k \in 1..Len(ms) :
            /\ KeywordAt(text, ms[k].start)
            /\ ms[k].end = MinOf(DotsAfter(text, ms[k].start))
            /\ k < Len(ms) => ms[k].end <= ms[k + 1].start
       /\ \A p \in 0..Len(text) :
            KeywordAt(text, p) /\ DotsAfter(text, p) = {} =>
              \A k \in 1..Len(ms) : ~(ms[k].start <= p /\ p < ms[k].end)
       /\ ms = <<>> /\ Scanned(i) => Found(i) = <<>>
       /\ Scanned(i) => Len(Found(i)) <= Len(ms)

\* a terminated statement followed by a keyword that nothing terminates
SpanBoundsWitness ==
  \E i \in 1..Len(units) :
    /\ Scanned(i)
    /\ Len(SpansOf(CodeOf(units[i]))) = 1
    /\ \E p \in 0..Len(CodeOf(units[i])) :
         /\ KeywordAt(CodeOf(units[i]), p)
         /\ DotsAfter(CodeOf(units[i]), p) = {}
    /\ Len(Found(i)) = 1

====
